---------------------------- MODULE Spec2Model ----------------------------
(***************************************************************************)
(* Model of PIPELINE/gee/export_three_dates_rgb8.js: the selection of the  *)
(* BEFORE / ON / AFTER Sentinel-2 images around a target date and the      *)
(* submission of their three exports.                                      *)
(*                                                                         *)
(* Units.  Times are minutes relative to midnight UTC of the target date.  *)
(* Fractions (cloudFrac, validFrac) are in per-mille, so 0.02 is 20 and    *)
(* 0.995 is 995.  Cloud probabilities are on the band's 0..100 scale.      *)
(***************************************************************************)
EXTENDS Integers, FiniteSets, Sequences, TLC

\* ------------------------------ SETTINGS ------------------------------
targetDate == 0
preLookbackDays == 30
postForwardDays == 10
cloudProbThresh == 40
maxCloudFrac == 20
minValidFrac == 995
onFallbackNearestDays == 3
cloudTieTolerance == 3

\* Largest number of images the catalog holds over the region.
MaxImages == 2

MinutesPerDay == 24 * 60
\* Sentinel-2 passes over the region around 05:00 UTC.
Overpass == 5 * 60
\* A fraction of 1, in per-mille.
FullFrac == 1000

\* What a server-side get() of an absent value yields.
Null == -1

\* ee.Date.advance(n, 'day')
advance(date, days) == date + days * MinutesPerDay

\* ee.Algorithms.If reads a non-boolean condition as a boolean: null is
\* false, and so is the number 0.
Truthy(v) == v # Null /\ v # 0

\* ----------------------------- the catalog -----------------------------
\* Acquisition times the catalog may hold: the first instant of the before
\* window, two days before the target, the target day, two granules ten
\* minutes apart two days after, three days after, and the first instant
\* past the after window.
Times ==
  { advance(targetDate, -preLookbackDays),
    advance(targetDate, -2) + Overpass,
    targetDate + Overpass,
    advance(targetDate, 2) + Overpass,
    advance(targetDate, 2) + Overpass + 10,
    advance(targetDate, 3) + Overpass,
    advance(targetDate, postForwardDays + 1) }

\* The images are drawn from: four with full valid coverage (cloud free,
\* two lightly clouded a near tie apart, one with a tenth of its pixels
\* clouded), three with half coverage, one whose reductions return no value
\* and one without a cloud-probability partner.  <<m, f>> is the mean of the
\* probability band and the per-mille of its pixels above cloudProbThresh.
\*
\* An image of COPERNICUS/S2_SR_HARMONIZED over the region.  hasCloudProb
\* tells whether COPERNICUS/S2_CLOUD_PROBABILITY holds an image of the same
\* system:index.  probMean, probFrac and b2Valid are what reduceRegion
\* returns for this image over exportUtm, Null when the reduction has no
\* value (no unmasked pixel in the region).
Image(t, has, pm, pf, bv) ==
  [time |-> t, hasCloudProb |-> has, probMean |-> pm, probFrac |-> pf, b2Valid |-> bv]

Scenes ==
  { Image(t, TRUE, p[1], p[2], FullFrac) :
      t \in Times, p \in { <<0, 0>>, <<10, 20>>, <<12, 20>>, <<30, 100>> } }
  \cup { Image(t, TRUE, p[1], p[2], 500) :
      t \in Times, p \in { <<10, 20>>, <<12, 20>>, <<98, 1000>> } }
  \cup { Image(t, TRUE, Null, Null, Null) : t \in Times }
  \cup { Image(t, FALSE, Null, Null, FullFrac) : t \in Times }

VARIABLES s2sr, pc, beforeImg, onImg, afterImg, dateDict, exports

vars == <<s2sr, pc, beforeImg, onImg, afterImg, dateDict, exports>>

\* ee.Join.saveFirst('cloudprob') keeps the primary images that have a match.
joined == { img \in s2sr : img.hasCloudProb }

\* ImageCollection.filterDate(start, end): start inclusive, end exclusive.
filterDate(col, dateStart, dateEnd) ==
  { img \in col : dateStart <= img.time /\ img.time < dateEnd }

\* addCloudProb: the probability band is the joined image's band when the
\* cloudprob property is set, else the constant 100.  The result is what the
\* reducers of addMetrics will see of that band.
addCloudProb(img) ==
  IF img.hasCloudProb
    THEN [time |-> img.time, src |-> img, mean |-> img.probMean, frac |-> img.probFrac]
    ELSE [time |-> img.time, src |-> img, mean |-> 100,
          frac |-> IF 100 > cloudProbThresh THEN FullFrac ELSE 0]

\* addMetrics: each metric is ee.Algorithms.If(value, value, default).
addMetrics(img) ==
  [time |-> img.time, src |-> img.src,
   roiCloud  |-> IF Truthy(img.mean) THEN img.mean ELSE 100,
   cloudFrac |-> IF Truthy(img.frac) THEN img.frac ELSE FullFrac,
   validFrac |-> IF Truthy(img.src.b2Valid) THEN img.src.b2Valid ELSE 0]

\* .map(addCloudProb).map(addMetrics)
scored(col) == { addMetrics(addCloudProb(img)) : img \in col }

validFilter(col) == { img \in col : img.validFrac >= minValidFrac }

\* qualityFilter with a fault: the cloudFrac filter is missing.
qualityFilterValidOnly(col) == validFilter(col)

qualityFilter(col) == { img \in validFilter(col) : img.cloudFrac <= maxCloudFrac }

\* tierOf with a fault: the last fallback, to all images of the window, is
\* missing.
tierOfNoFallback(colStrict, colValid, colAll) ==
  IF Cardinality(colStrict) > 0 THEN colStrict ELSE colValid

\* strict quality -> fallback valid-only -> fallback all
tierOf(colStrict, colValid, colAll) ==
  IF Cardinality(colStrict) > 0 THEN colStrict
  ELSE IF Cardinality(colValid) > 0 THEN colValid ELSE colAll

\* The chosen images.  kind is "image" for a catalog image (img holds it),
\* "empty" for ee.Image().updateMask(ee.Image(0)), "error" for a value whose
\* computation fails on the server.
NoImage == [time |-> Null, src |-> Image(Null, FALSE, Null, Null, Null),
            roiCloud |-> Null, cloudFrac |-> Null, validFrac |-> Null]
Picked(img, flag) == [kind |-> "image", img |-> img, usedExactOnDay |-> flag]
empty == [kind |-> "empty", img |-> NoImage, usedExactOnDay |-> Null]
Failed == [kind |-> "error", img |-> NoImage, usedExactOnDay |-> Null]
Unset == [kind |-> "unset", img |-> NoImage, usedExactOnDay |-> Null]

NoDates == [state |-> "pending", before |-> Null, on |-> Null, after |-> Null]

\* aggregate_min('roiCloud'); null on an empty collection.
minCloud(col) ==
  IF col = {} THEN Null
  ELSE CHOOSE m \in { c.roiCloud : c \in col } : \A c \in col : m <= c.roiCloud

\* best with a fault: the near-tie filter is missing.
bestUnfiltered(col) == col

\* col.filter(ee.Filter.lte('roiCloud', minCloud.add(cloudTieTolerance)))
best(col) == { c \in col : c.roiCloud <= minCloud(col) + cloudTieTolerance }

\* sortedByTimeFirst with a fault: the sort direction is inverted.
sortedByTimeFirstInverted(col, ascending) ==
  IF ascending
    THEN { c \in col : \A o \in col : c.time >= o.time }
    ELSE { c \in col : \A o \in col : c.time <= o.time }

\* col.sort('system:time_start', ascending).first(): the images that may
\* come first; none when the collection is empty.  Images of equal time
\* come in either order.
sortedByTimeFirst(col, ascending) ==
  IF ascending
    THEN { c \in col : \A o \in col : c.time <= o.time }
    ELSE { c \in col : \A o \in col : c.time >= o.time }

\* ee.Image(x) of the first element of a collection: a failing value when
\* the collection has no first element.
imageOf(firsts, flag) ==
  IF firsts = {} THEN { Failed } ELSE { Picked(c, flag) : c \in firsts }

\* The values selectMinCloudWithTimePref may return.  Only the branch the
\* final ee.Algorithms.If selects decides the value: on an empty window
\* minCloud is null and `chosen` has no value, and the result is `empty`.
selectMinCloudWithTimePref(dateStart, dateEnd, preferLatest) ==
  LET colAll == scored(filterDate(joined, dateStart, dateEnd))
      colStrict == qualityFilter(colAll)
      colValid == validFilter(colAll)
      col == tierOf(colStrict, colValid, colAll)
      sorted == sortedByTimeFirst(best(col), ~preferLatest)
      chosen == imageOf(sorted, Null)
  IN  IF Cardinality(colAll) > 0 THEN chosen ELSE { empty }

\* ee.Date(time_start).difference(tDate, 'day').abs(), in minutes.
absDiff(img, tDate) ==
  IF img.time >= tDate THEN img.time - tDate ELSE tDate - img.time

\* sortKey = d * 1000 + roiCloud with d in days, here times MinutesPerDay
\* so that it stays an integer; the order of the keys is unchanged.
sortKey(img, tDate) == absDiff(img, tDate) * 1000 + img.roiCloud * MinutesPerDay

\* exact.sort('roiCloud').first()
exactChosen(exact) == { c \in exact : \A o \in exact : c.roiCloud <= o.roiCloud }

\* nearest.sort('sortKey').first()
nearestChosen(nearest, tDate) ==
  { c \in nearest : \A o \in nearest : sortKey(c, tDate) <= sortKey(o, tDate) }

\* onChoice with a fault: the pick is the first of the nearest pool, which
\* holds the exact-day images too, whether or not there is an exact-day image.
onChoiceNearestOnly(exactAll, exact, nearest, tDate) ==
  imageOf(nearestChosen(nearest, tDate), IF Cardinality(exactAll) > 0 THEN 1 ELSE 0)

\* ee.Image(ee.Algorithms.If(exactSize.gt(0), exactChosen, nearestChosen))
\*   .set('usedExactOnDay', exactSize.gt(0)); set() of no image fails.
onChoice(exactAll, exact, nearest, tDate) ==
  IF Cardinality(exactAll) > 0
    THEN imageOf(exactChosen(exact), 1)
    ELSE imageOf(nearestChosen(nearest, tDate), 0)

\* The values selectOnDayExactOrNearest may return.
selectOnDayExactOrNearest(tDate, nearestDays) ==
  LET exactAll == scored(filterDate(joined, tDate, advance(tDate, 1)))
      exact == tierOf(qualityFilter(exactAll), validFilter(exactAll), exactAll)
      nearestAll == scored(filterDate(joined, advance(tDate, -nearestDays),
                                      advance(tDate, nearestDays + 1)))
      nearest == tierOf(qualityFilter(nearestAll), validFilter(nearestAll), nearestAll)
  IN  onChoice(exactAll, exact, nearest, tDate)

\* ------------------------------ WINDOWS ------------------------------
preStart == advance(targetDate, -preLookbackDays)
preEnd == targetDate
postStart == advance(targetDate, 1)
postEnd == advance(targetDate, postForwardDays + 1)

\* Element.get(property): null for a property the image does not have.
get(chosen, prop) ==
  IF chosen.kind # "image" THEN Null
  ELSE CASE prop = "system:time_start" -> chosen.img.time
         [] prop = "roiCloud" -> chosen.img.roiCloud
         [] prop = "cloudFrac" -> chosen.img.cloudFrac
         [] prop = "validFrac" -> chosen.img.validFrac
         [] prop = "usedExactOnDay" -> chosen.usedExactOnDay
         [] OTHER -> Null

\* ee.Date(t).format('YYYYMMdd'): the calendar day of t, as the number of
\* days from the target date's day.
format(t) == t \div MinutesPerDay

Init ==
  /\ \E n \in 0..MaxImages : \E f \in [1..n -> Scenes] : s2sr = { f[i] : i \in 1..n }
  /\ pc = "pickBefore"
  /\ beforeImg = Unset /\ onImg = Unset /\ afterImg = Unset
  /\ dateDict = NoDates
  /\ exports = << >>

\* line 195
PickBefore ==
  /\ pc = "pickBefore"
  /\ beforeImg' \in selectMinCloudWithTimePref(preStart, preEnd, TRUE)
  /\ pc' = "pickOn"
  /\ UNCHANGED <<s2sr, onImg, afterImg, dateDict, exports>>

\* line 196
PickOn ==
  /\ pc = "pickOn"
  /\ onImg' \in selectOnDayExactOrNearest(targetDate, onFallbackNearestDays)
  /\ pc' = "pickAfter"
  /\ UNCHANGED <<s2sr, beforeImg, afterImg, dateDict, exports>>

\* line 197
PickAfter ==
  /\ pc = "pickAfter"
  /\ afterImg' \in selectMinCloudWithTimePref(postStart, postEnd, FALSE)
  /\ pc' = "evaluate"
  /\ UNCHANGED <<s2sr, beforeImg, onImg, dateDict, exports>>

\* Lines 199-234 (visualize, Map.addLayer, print, getThumbURL) build and
\* show the renderings and assign nothing that the exports read besides
\* before8, on8 and after8, the renderings of the three chosen images.
\*
\* dateDict.evaluate: the server computes the three formatted dates.
\* ee.Date of a null system:time_start fails, and so does the whole
\* dictionary; the callback then gets no value.
EvaluateDateDict ==
  /\ pc = "evaluate"
  /\ dateDict' =
       IF \A im \in { beforeImg, onImg, afterImg } : get(im, "system:time_start") # Null
         THEN [state |-> "ok",
               before |-> format(get(beforeImg, "system:time_start")),
               on |-> format(get(onImg, "system:time_start")),
               after |-> format(get(afterImg, "system:time_start"))]
         ELSE [state |-> "error", before |-> Null, on |-> Null, after |-> Null]
  /\ pc' = "callback"
  /\ UNCHANGED <<s2sr, beforeImg, onImg, afterImg, exports>>

ExportRequest(role, image, date) == [description |-> role, image |-> image, date |-> date]

\* The callback of dateDict.evaluate: three Export.image.toDrive calls.
\* Without a value d is undefined and reading d.before throws.
ExportCallback ==
  /\ pc = "callback"
  /\ IF dateDict.state = "ok"
       THEN /\ exports' = exports \o << ExportRequest("BEFORE_RGB8", beforeImg, dateDict.before),
                                        ExportRequest("ON_RGB8", onImg, dateDict.on),
                                        ExportRequest("AFTER_RGB8", afterImg, dateDict.after) >>
            /\ pc' = "done"
       ELSE /\ exports' = exports
            /\ pc' = "thrown"
  /\ UNCHANGED <<s2sr, beforeImg, onImg, afterImg, dateDict>>

Next == PickBefore \/ PickOn \/ PickAfter \/ EvaluateDateDict \/ ExportCallback

Spec == Init /\ [][Next]_vars

\* ------------------------------ properties ------------------------------
\* The candidates with their metrics, and the windows of the three picks.
Candidates == scored(joined)
Between(lo, hi) == { c \in Candidates : lo <= c.time /\ c.time < hi }
BeforeWin == Between(advance(targetDate, -preLookbackDays), targetDate)
AfterWin == Between(advance(targetDate, 1), advance(targetDate, postForwardDays + 1))
ExactWin == Between(targetDate, advance(targetDate, 1))
NearestWin == Between(advance(targetDate, -onFallbackNearestDays),
                      advance(targetDate, onFallbackNearestDays + 1))
OnWin == IF ExactWin # {} THEN ExactWin ELSE NearestWin

IsValid(c) == c.validFrac >= minValidFrac
IsStrict(c) == IsValid(c) /\ c.cloudFrac <= maxCloudFrac
WinningTier(win) ==
  IF \E c \in win : IsStrict(c) THEN { c \in win : IsStrict(c) }
  ELSE IF \E c \in win : IsValid(c) THEN { c \in win : IsValid(c) }
  ELSE win
NearTie(win) ==
  { c \in WinningTier(win) : \A o \in WinningTier(win) : c.roiCloud <= o.roiCloud + cloudTieTolerance }

Done(chosen) == chosen.kind # "unset"
Computed(c) == c.src.probMean # Null /\ c.src.probFrac # Null /\ c.src.b2Valid # Null
Defaulted(c) == c.src.probMean = Null /\ c.src.probFrac = Null /\ c.src.b2Valid = Null

\* C1: a selection whose window holds at least one candidate returns one of
\* the candidates of that window, never the placeholder nor a failed value.
FromWindow(chosen, win) ==
  (Done(chosen) /\ win # {}) => (chosen.kind = "image" /\ chosen.img \in win)
C1_ResultWheneverCandidate ==
  /\ FromWindow(beforeImg, BeforeWin)
  /\ FromWindow(onImg, OnWin)
  /\ FromWindow(afterImg, AfterWin)

\* C1 witness: all three picks made from windows in which no candidate has
\* enough valid coverage, so that each pick fell through to the last tier.
C1_Witness ==
  /\ pc = "evaluate"
  /\ beforeImg.kind = "image" /\ onImg.kind = "image" /\ afterImg.kind = "image"
  /\ \A c \in Candidates : ~IsValid(c)

\* C2: the chosen candidate passes the strict test whenever a candidate of
\* its window does, else the valid test whenever a candidate of its window
\* does (validFrac and cloudFrac being the properties addMetrics stored).
FirstTierWins(chosen, win) ==
  (Done(chosen) /\ win # {}) =>
     /\ chosen.kind = "image"
     /\ (\E c \in win : IsStrict(c)) => IsStrict(chosen.img)
     /\ (\E c \in win : IsValid(c)) => IsValid(chosen.img)
C2_FirstNonEmptyTierWins ==
  /\ FirstTierWins(beforeImg, BeforeWin)
  /\ FirstTierWins(onImg, OnWin)
  /\ FirstTierWins(afterImg, AfterWin)

\* C2 witness: the before window holds a strict candidate and a less cloudy
\* candidate that is not strict, and the pick has been made.
C2_Witness ==
  /\ Done(beforeImg)
  /\ \E a, b \in BeforeWin : IsStrict(a) /\ ~IsStrict(b) /\ b.roiCloud < a.roiCloud

\* C3 as stated: the chosen candidate's roiCloud is at most the minimum
\* roiCloud over ALL candidates of the window plus cloudTieTolerance.
WithinToleranceOf(chosen, pool) ==
  chosen.kind = "image" => \A c \in pool : chosen.img.roiCloud <= c.roiCloud + cloudTieTolerance
C3_NearTieOverWindow ==
  /\ WithinToleranceOf(beforeImg, BeforeWin)
  /\ WithinToleranceOf(afterImg, AfterWin)

\* C3 amended: the chosen candidate's roiCloud is at most the minimum
\* roiCloud over the candidates of the window's winning tier plus
\* cloudTieTolerance.
C3_NearTieOverWinningTier ==
  /\ WithinToleranceOf(beforeImg, WinningTier(BeforeWin))
  /\ WithinToleranceOf(afterImg, WinningTier(AfterWin))

\* C3 witness: the winning tier of the before window holds two candidates
\* more than the tolerance apart, the cloudier one being the later, and the
\* pick has been made.
C3_Witness ==
  /\ beforeImg.kind = "image"
  /\ \E a, b \in WinningTier(BeforeWin) :
        a.roiCloud > b.roiCloud + cloudTieTolerance /\ a.time > b.time

\* C4: when a candidate was acquired on the target day the on-day pick is a
\* least-roiCloud candidate of the exact pool's winning tier, whatever the
\* nearest pool holds, and usedExactOnDay is true exactly in that case.
C4_ExactDayPrecedence ==
  Done(onImg) =>
    /\ ExactWin # {} =>
         /\ onImg.kind = "image"
         /\ onImg.img \in WinningTier(ExactWin)
         /\ \A c \in WinningTier(ExactWin) : onImg.img.roiCloud <= c.roiCloud
    /\ (get(onImg, "usedExactOnDay") = 1) <=> (ExactWin # {})

\* C4 witness: the only exact-day candidate fails the strict test while a
\* candidate of another day in the nearest window passes it.
C4_Witness ==
  /\ Done(onImg)
  /\ ExactWin # {} /\ \A c \in ExactWin : ~IsStrict(c)
  /\ \E c \in NearestWin \ ExactWin : IsStrict(c)

\* C5: without an exact-day candidate no candidate of the nearest pool's
\* winning tier is closer to the target than the chosen one, and none at
\* the same distance is less cloudy.
C5_DistanceDominates ==
  (Done(onImg) /\ ExactWin = {} /\ onImg.kind = "image") =>
    \A c \in WinningTier(NearestWin) :
      /\ absDiff(c, targetDate) >= absDiff(onImg.img, targetDate)
      /\ absDiff(c, targetDate) = absDiff(onImg.img, targetDate)
           => onImg.img.roiCloud <= c.roiCloud

\* C6: in a window holding a candidate whose three metrics were computed,
\* the chosen candidate is never one whose metrics are the defaults.
ScoredWins(chosen, win) ==
  (chosen.kind = "image" /\ \E c \in win : Computed(c)) => ~Defaulted(chosen.img)
C6_AbsenceNeverWins ==
  /\ ScoredWins(beforeImg, BeforeWin)
  /\ ScoredWins(onImg, OnWin)
  /\ ScoredWins(afterImg, AfterWin)

\* C7: a selection whose window holds no candidate returns the masked
\* placeholder, which has no roiCloud, cloudFrac or validFrac.
Placeholder(chosen, win) ==
  (Done(chosen) /\ win = {}) =>
     /\ chosen.kind = "empty"
     /\ get(chosen, "roiCloud") = Null
     /\ get(chosen, "cloudFrac") = Null
     /\ get(chosen, "validFrac") = Null
C7_EmptyWindowPlaceholder ==
  /\ Placeholder(beforeImg, BeforeWin)
  /\ Placeholder(onImg, NearestWin)
  /\ Placeholder(afterImg, AfterWin)

\* C8: a run ends with exactly three export requests, BEFORE, ON, AFTER in
\* that order, submitted only once the dates have been evaluated.
C8_ThreeExports ==
  /\ exports # << >> => dateDict.state = "ok"
  /\ pc \in { "done", "thrown" } =>
       /\ Len(exports) = 3
       /\ exports[1].description = "BEFORE_RGB8" /\ exports[1].image = beforeImg
       /\ exports[2].description = "ON_RGB8" /\ exports[2].image = onImg
       /\ exports[3].description = "AFTER_RGB8" /\ exports[3].image = afterImg

\* C9: the before pick is a latest candidate of its near-tie set and lies
\* in [target - preLookbackDays, target); the after pick is an earliest
\* candidate of its near-tie set and lies on or after target + 1 day.
C9_TimePreference ==
  /\ beforeImg.kind = "image" =>
       /\ beforeImg.img \in NearTie(BeforeWin)
       /\ \A o \in NearTie(BeforeWin) : o.time <= beforeImg.img.time
       /\ advance(targetDate, -preLookbackDays) <= beforeImg.img.time
       /\ beforeImg.img.time < targetDate
  /\ afterImg.kind = "image" =>
       /\ afterImg.img \in NearTie(AfterWin)
       /\ \A o \in NearTie(AfterWin) : o.time >= afterImg.img.time
       /\ afterImg.img.time >= advance(targetDate, 1)

\* C9 witness: a pick made from a near-tie set of two candidates of
\* different acquisition times, in the before or in the after window.
C9_Witness ==
  \/ /\ beforeImg.kind = "image"
     /\ \E a, b \in NearTie(BeforeWin) : a.time < b.time
  \/ /\ afterImg.kind = "image"
     /\ \E a, b \in NearTie(AfterWin) : a.time < b.time

\* C10: a chosen candidate's roiCloud, cloudFrac and validFrac are the
\* reducer's values whenever it returned them, 0 included, and the defaults
\* 100, 1 and 0 only when it returned none.
StoresReduced(chosen) ==
  chosen.kind = "image" =>
    LET c == chosen.img IN
    /\ c.roiCloud = IF c.src.probMean # Null THEN c.src.probMean ELSE 100
    /\ c.cloudFrac = IF c.src.probFrac # Null THEN c.src.probFrac ELSE FullFrac
    /\ c.validFrac = IF c.src.b2Valid # Null THEN c.src.b2Valid ELSE 0
C10_DefaultsOnlyWhenUnavailable ==
  StoresReduced(beforeImg) /\ StoresReduced(onImg) /\ StoresReduced(afterImg)
=============================================================================
